---- MODULE Spec2Model ----
(***************************************************************************)
(* esbuild-css-modules-plugin (lib/plugin.js): the two-phase virtual       *)
(* module pipeline (resolve-to-building, load-building, resolve-to-built,  *)
(* load-built), the build cache consulted by load-building, the compiler   *)
(* adapter buildCssModulesJs, and the post-build injection step onEnd.     *)
(*                                                                         *)
(* Strings the code manipulates are sequences of one-character strings;    *)
(* paths are sequences of path segments.  Handlers are asynchronous: one   *)
(* action models the code a handler runs from one suspension point to the  *)
(* next.                                                                   *)
(***************************************************************************)
EXTENDS Integers, Sequences, FiniteSets, TLC

\* ------------------------------------------------------------------ bounds
MaxReq == 2          \* stylesheet imports the host issues in one build session
MaxEdits == 1        \* edits of source stylesheets during the session
MaxOutputs == 4      \* output files listed in the build manifest

\* ------------------------------------------------------------- basic values
None == [tag |-> "none"]
\* JavaScript option values, by their spelling
Undef == "undefined"
JsTrue == "true"
JsFalse == "false"
\* a ?? b
Nullish(a, b) == IF a = Undef THEN b ELSE a
\* a JavaScript value used as a condition
Truthy(v) == v \notin {JsFalse, Undef, ""}

\* characters of class identifiers, with their UTF-16 code units
Alphabet == {"-", "F", "I", "f", "i"}
CharCode(c) ==
  CASE c = "-" -> 45 [] c = "F" -> 70 [] c = "I" -> 73
    [] c = "f" -> 102 [] c = "i" -> 105
IsUpper(c) == c \in {"F", "I"}
IsLower(c) == c \in {"f", "i"}
ToLower(c) == CASE c = "F" -> "f" [] c = "I" -> "i" [] OTHER -> c
ToUpper(c) == CASE c = "f" -> "F" [] c = "i" -> "I" [] OTHER -> c
LowerStr(w) == [k \in 1..Len(w) |-> ToLower(w[k])]
UpperFirst(w) == IF w = <<>> THEN w ELSE <<ToUpper(w[1])>> \o Tail(w)

\* end of the run of characters satisfying the class, starting at i
RECURSIVE RunEnd(_, _, _)
RunEnd(s, i, upper) ==
  IF i < Len(s) /\ (IF upper THEN IsUpper(s[i + 1]) ELSE IsLower(s[i + 1]))
    THEN RunEnd(s, i + 1, upper)
    ELSE i

\* lodash words(): the word a scan finds at position i ends at WordEnd
WordEnd(s, i) ==
  IF IsLower(s[i]) THEN RunEnd(s, i, FALSE)
  ELSE IF i < Len(s) /\ IsLower(s[i + 1]) THEN RunEnd(s, i + 1, FALSE)
  ELSE LET k == RunEnd(s, i, TRUE)
       IN IF k < Len(s) /\ IsLower(s[k + 1]) THEN k - 1 ELSE k

RECURSIVE WordsFrom(_, _)
WordsFrom(s, i) ==
  IF i > Len(s) THEN <<>>
  ELSE IF ~(IsUpper(s[i]) \/ IsLower(s[i])) THEN WordsFrom(s, i + 1)
  ELSE LET e == WordEnd(s, i)
       IN <<SubSeq(s, i, e)>> \o WordsFrom(s, e + 1)

Words(s) == WordsFrom(s, 1)

RECURSIVE CamelJoin(_, _)
CamelJoin(ws, k) ==
  IF k > Len(ws) THEN <<>>
  ELSE (IF k = 1 THEN LowerStr(ws[k]) ELSE UpperFirst(LowerStr(ws[k])))
       \o CamelJoin(ws, k + 1)

\* lodash camelCase
camelCase(s) == CamelJoin(Words(s), 1)

RECURSIVE KebabJoin(_, _)
KebabJoin(ws, k) ==
  IF k > Len(ws) THEN <<>>
  ELSE (IF k = 1 THEN <<>> ELSE <<"-">>) \o LowerStr(ws[k]) \o KebabJoin(ws, k + 1)

\* lodash kebabCase
kebabCase(s) == KebabJoin(Words(s), 1)

\* JavaScript string comparison, by code unit
RECURSIVE StrLess(_, _)
StrLess(a, b) ==
  IF a = <<>> THEN b # <<>>
  ELSE IF b = <<>> THEN FALSE
  ELSE IF a[1] = b[1] THEN StrLess(Tail(a), Tail(b))
  ELSE CharCode(a[1]) < CharCode(b[1])

\* Object.keys(exports).sort()
RECURSIVE SortedKeys(_)
SortedKeys(S) ==
  IF S = {} THEN <<>>
  ELSE LET m == CHOOSE x \in S : \A y \in S \ {x} : StrLess(x, y)
       IN <<m>> \o SortedKeys(S \ {m})

\* reserved identifiers of the module system that can be spelled in Alphabet
ReservedWords == {<<"i", "f">>}
validateNamedExport(name) == name \notin ReservedWords

\* ------------------------------------------------------------------- paths
BuildRoot == "/root"
pluginName == "esbuild-css-modules-plugin"
pluginNamespace == "esbuild-css-modules-plugin-namespace"
buildingCssSuffix == "?esbuild-css-modules-plugin-building"
builtCssSuffix == "?esbuild-css-modules-plugin-built"

StyleNames == {"a.module.css", "b.module.css"}      \* stylesheets on disk
ImportNames == StyleNames \cup {"gone.module.css"}  \* import specifiers seen
AbsPaths == {<<BuildRoot, n>> : n \in StyleNames}

IsAbsolute(p) == p # <<>> /\ p[1] = BuildRoot
Basename(p) == p[Len(p)]
Dirname(p) == SubSeq(p, 1, Len(p) - 1)
\* path.resolve(root, p)
PathResolve(root, p) ==
  IF IsAbsolute(p) THEN p
  ELSE IF p # <<>> /\ p[1] = "." THEN <<root>> \o Tail(p)
  ELSE <<root>> \o p
\* build.context.relative: the path from the build root, led by "."
getRelativePath(to) ==
  IF ~IsAbsolute(to) THEN (IF to # <<>> /\ to[1] = "." THEN to ELSE <<".">> \o to)
  ELSE <<".">> \o Tail(to)

\* the stylesheet pattern and its "built" form, on segmented paths
MatchesModulesCss(p) == p # <<>> /\ Basename(p) \in ImportNames
MatchesBuiltModulesCss(p) ==
  Len(p) >= 2 /\ p[Len(p)] = builtCssSuffix /\ p[Len(p) - 1] \in ImportNames

\* createHash('sha256').update(rpath).digest('hex'), kept whole by the slice
Sha256Hex(rpath) == <<"sha256">> \o rpath

\* ------------------------------------------------------- stylesheet content
CssPlain == [ok |-> TRUE, classes |-> {<<"i">>, <<"f", "-", "i">>}]
CssOther == [ok |-> TRUE, classes |-> {<<"f", "I">>}]
CssReserved == [ok |-> TRUE, classes |-> {<<"f">>, <<"I", "f">>}]
CssMalformed == [ok |-> FALSE, classes |-> {}]
Contents == {CssPlain, CssOther, CssReserved, CssMalformed}

\* ------------------------------------------------------- compiler adapter
\* base name without extension, non-alphanumerics replaced, then "__"
classPrefix(fullPath) ==
  CASE Basename(fullPath) = "a.module.css" -> "a-module__"
    [] Basename(fullPath) = "b.module.css" -> "b-module__"
    [] OTHER -> "__"
versionString == "100"    \* package version 1.0.0 without its dots

\* the scoped name the transform gives a class under the plugin's pattern
ScopedName(fullPath, local) ==
  [prefix |-> classPrefix(fullPath), local |-> local,
   hash |-> getRelativePath(fullPath), version |-> versionString]

\* the export table of the transform: original class -> { name }
TransformExports(fullPath, content) ==
  [c \in content.classes |-> [name |-> ScopedName(fullPath, c)]]

\* transformed CSS with the inline source map appended
cssWithSourceMap(fullPath, content) ==
  [file |-> getRelativePath(fullPath),
   rules |-> {ScopedName(fullPath, c) : c \in content.classes},
   sourceMap |-> TRUE]

\* variant: the building suffix is left on the import
cssImportPathBuilding(fullPath) == <<".", Basename(fullPath), buildingCssSuffix>>
\* "./" + file name without the building suffix + the built suffix
cssImportPath(fullPath) == <<".", Basename(fullPath), builtCssSuffix>>

\* variant: the named exports are not validated
FirstInvalidNone(keys) == 0
\* variant: the class name is validated as written, not in camelCase
FirstInvalidRaw(keys) ==
  LET bad == {k \in 1..Len(keys) : ~validateNamedExport(keys[k])}
  IN IF bad = {} THEN 0 ELSE CHOOSE k \in bad : \A j \in bad : k <= j
\* the class that makes the named-export loop throw, if any
FirstInvalid(keys) ==
  LET bad == {k \in 1..Len(keys) : ~validateNamedExport(camelCase(keys[k]))}
  IN IF bad = {} THEN 0 ELSE CHOOSE k \in bad : \A j \in bad : k <= j

namedExportStatements(keys, exports) ==
  [k \in 1..Len(keys) |-> <<camelCase(keys[k]), exports[keys[k]].name>>]

classNamesMap(keys, exports) ==
  [k \in 1..Len(keys) |-> <<kebabCase(keys[k]), exports[keys[k]].name>>]

\* the adapter after the transform, from the keys of its export table in the
\* order Object.keys(exports).sort() gives them
BindingFromKeys(fullPath, content, inject, keys) ==
    LET exports == TransformExports(fullPath, content)
        bad == FirstInvalid(keys)
    IN IF bad # 0
         THEN [ok |-> FALSE,
               error |-> [type |-> "ReservedKeyword",
                          name |-> camelCase(keys[bad]), file |-> fullPath]]
         ELSE [ok |-> TRUE,
               js |-> [import |-> cssImportPath(fullPath),
                       proxy |-> Truthy(inject),
                       default |-> classNamesMap(keys, exports),
                       named |-> namedExportStatements(keys, exports)],
               css |-> cssWithSourceMap(fullPath, content),
               originCss |-> content,
               exports |-> exports,
               resolveDir |-> Dirname(fullPath)]

\* the module text of a binding loads when no two of its `export const`
\* statements declare the same name; a second declaration of a name is a
\* SyntaxError and nothing of the module runs
ModuleLoads(js) ==
  \A j, k \in 1..Len(js.named) : js.named[j][1] = js.named[k][1] => j = k

buildCssModulesJs(fullPath, content, inject) ==
  IF ~content.ok
    THEN [ok |-> FALSE,
          error |-> [type |-> "CompileError", file |-> getRelativePath(fullPath)]]
    ELSE BindingFromKeys(fullPath, content, inject,
                         SortedKeys(DOMAIN TransformExports(fullPath, content)))

\* ------------------------------------------------------------------- state
VARIABLES
  initialWatch,   \* build.initialOptions.watch: undefined, true or false
  optionsWatch,   \* options.watch: undefined, true or false
  optionsInject,  \* options.inject: false, true or a container selector
  fileContent,    \* the source stylesheets on disk, by absolute path
  cache,          \* build.context.cache: absolute path -> entry or None
  req,            \* the imports the host has in flight, and their handlers
  lastDone,       \* per path, the latest assembled load result and its source content
  compileCount,   \* per path, calls of the compiler adapter
  cacheTouched,   \* the cache was read or written
  edits           \* edits of source files so far

varsLoad == <<initialWatch, optionsWatch, optionsInject, fileContent, cache, req,
              lastDone, compileCount, cacheTouched, edits>>

\* the post-build step of the build
VARIABLES
  manifest,       \* Object.keys(result.metafile.outputs), in enumeration order
  entryPoints,    \* the entry points the user asked for
  sourcemap,      \* "off", "external", or "publicInline" (inline with a publicPath)
  endPc,          \* where onEnd is
  entryToInject,  \* the matched entry output, NoFile while null
  cssPc,          \* per manifest position, where its callback is
  cssText,        \* per manifest position, the css its callback read
  cssContents,    \* the transformed css blobs, in push order
  injectedCode,   \* the injector code built for the matched entry
  outFiles,       \* the files of the output directory
  tmpFile,        \* .build.inject.js, None while it does not exist
  hook,           \* the promise of the registered onEnd callback
  nestedBuilds    \* nested builds that wrote their output

varsEnd == <<manifest, entryPoints, sourcemap, endPc, entryToInject, cssPc, cssText,
             cssContents, injectedCode, outFiles, tmpFile, hook, nestedBuilds>>

\* one stylesheet compiled on its own, and its JS binding module at run time
VARIABLES
  sheet,          \* the compiled stylesheet: path, content, options.inject
  enumeration,    \* the order the transform listed its export table in, latest compile
  enumsSeen,      \* the enumeration orders of the compiles so far
  binding,        \* what the latest compile returned, None before the first
  timers,         \* callbacks the module has scheduled with setTimeout(.., 0)
  injectDefined,  \* window.__inject_<buildId>__ is defined
  injectCalls,    \* calls of window.__inject_<buildId>__
  reads,          \* property reads on the default export
  lastRead        \* the latest read: key and the value it returned

varsBind == <<sheet, enumeration, enumsSeen, binding, timers, injectDefined,
              injectCalls, reads, lastRead>>

\* the older implementation of the plugin, one process
VARIABLES
  oldOptions,     \* its options: bundle, v2, inject
  hashState,      \* what the module-level sha256 object has been fed so far
  oldModules,     \* per stylesheet, the JS module its latest resolve generated
  oldFirstDigest, \* per stylesheet, the digest of its first resolve
  oldResolves     \* resolves of stylesheets so far

varsOld == <<oldOptions, hashState, oldModules, oldFirstDigest, oldResolves>>
vars == <<varsLoad, varsEnd, varsBind, varsOld>>

OldIdle ==
  /\ oldOptions = None
  /\ hashState = <<>>
  /\ oldModules = [p \in AbsPaths |-> None]
  /\ oldFirstDigest = [p \in AbsPaths |-> None]
  /\ oldResolves = 0

Reqs == 1..MaxReq


\* variants of the cache switch: the build's option alone, and either option
useCacheBuildOnly(iw, ow) == Truthy(iw)
useCacheEither(iw, ow) == Truthy(iw) \/ Truthy(ow)
\* build.initialOptions.watch ?? options.watch ?? false
useCache(iw, ow) == Truthy(Nullish(iw, Nullish(ow, JsFalse)))

\* { ...a, ...b }
Spread(a, b) ==
  [k \in DOMAIN a \cup DOMAIN b |-> IF k \in DOMAIN b THEN b[k] ELSE a[k]]
EmptyData == [k \in {} |-> None]
\* pluginData.relativePathToBuildRoot
RelPathOf(pd) ==
  IF "relativePathToBuildRoot" \in DOMAIN pd
    THEN pd["relativePathToBuildRoot"] ELSE <<Undef>>

\* ------------------------------------------------------------- build cache
\* cache.get(absPath): the stored result while the source content is the
\* content stored with it, nothing otherwise
CacheGet(c, absPath, files) ==
  IF absPath \in DOMAIN c /\ c[absPath] # None /\ absPath \in DOMAIN files
     /\ c[absPath].input = files[absPath]
    THEN c[absPath].result
    ELSE None

\* cache.set(absPath, result, originContent)
CacheSet(c, absPath, result, originContent) ==
  [c EXCEPT ![absPath] = [result |-> result, input |-> originContent]]

\* ------------------------------------------------------------ host bundler
\* the host's own resolver: the absolute path of an import, or an error
HostResolve(name, resolveDir) ==
  IF name \in StyleNames
    THEN [path |-> <<resolveDir, name>>]
    ELSE [error |-> [type |-> "ResolveError", text |-> "Could not resolve", path |-> name]]

\* how build.resolve ends for an import: a result with a path, or, for a file
\* that is not found, either a rejected promise or a fulfilled one whose
\* result lists the error and has the empty path
HostResolveOutcomes(name, resolveDir) ==
  LET got == HostResolve(name, resolveDir)
  IN IF "error" \in DOMAIN got
       THEN {got, [errors |-> <<got.error>>, path |-> <<>>]}
       ELSE {got}

\* which onResolve callback the host runs for an import, by registration order
HostResolveHandler(namespace, p) ==
  IF namespace = "file" /\ MatchesModulesCss(p) THEN "onResolveModulesCss"
  ELSE IF namespace = pluginNamespace /\ MatchesBuiltModulesCss(p)
    THEN "onResolveBuiltModulesCss"
  ELSE "host"

\* which onLoad callback the host runs for a resolved module
HostLoadHandler(namespace, p) ==
  IF namespace = pluginNamespace /\ MatchesModulesCss(p) THEN "onLoadModulesCss"
  ELSE IF namespace = pluginNamespace /\ MatchesBuiltModulesCss(p)
    THEN "onLoadBuiltModulesCss"
  ELSE "host"

\* ---------------------------------------------------------------- handlers
\* the result of onResolveModulesCss for a resolved absolute path
onResolveModulesCss(absPath, pluginData) ==
  LET rpath == getRelativePath(absPath)
  IN [namespace |-> pluginNamespace,
      suffix |-> buildingCssSuffix,
      path |-> rpath,
      external |-> FALSE,
      pluginData |-> Spread(pluginData, [relativePathToBuildRoot |-> rpath]),
      sideEffects |-> TRUE,
      pluginName |-> pluginName,
      watchFiles |-> <<absPath>>]

\* the absolute path onLoadModulesCss computes from args.path
LoadAbsPath(argsPath) ==
  IF IsAbsolute(argsPath) THEN argsPath ELSE PathResolve(BuildRoot, argsPath)

\* variant: the incoming pluginData is not carried over
LoadResultNoSpread(pluginData, built, digest) ==
  [pluginName |-> pluginName,
   resolveDir |-> built.resolveDir,
   pluginData |-> [css |-> built.css, exports |-> built.exports, digest |-> digest],
   contents |-> built.js,
   loader |-> "js"]
\* the result onLoadModulesCss assembles after a compile
LoadResult(pluginData, built, digest) ==
  [pluginName |-> pluginName,
   resolveDir |-> built.resolveDir,
   pluginData |-> Spread(pluginData,
                         [css |-> built.css, exports |-> built.exports,
                          digest |-> digest]),
   contents |-> built.js,
   loader |-> "js"]

\* variant: the result is stored without its source content
StoredNothing(originCss, currentContent) == None
\* what onLoadModulesCss hands cache.set as the source content
StoredInput(originCss, currentContent) == originCss

onResolveBuiltModulesCss(pluginData) ==
  [namespace |-> pluginNamespace,
   path |-> RelPathOf(pluginData) \o <<builtCssSuffix>>,
   external |-> FALSE,
   pluginData |-> pluginData,
   sideEffects |-> TRUE,
   pluginName |-> pluginName]

\* path.resolve throws on a relative path that is not a string, so carried
\* data without relativePathToBuildRoot ends the handler with a TypeError
onLoadBuiltModulesCss(pluginData) ==
  IF "relativePathToBuildRoot" \notin DOMAIN pluginData
    THEN [error |-> [type |-> "TypeError", code |-> "ERR_INVALID_ARG_TYPE"]]
    ELSE [contents |-> IF "css" \in DOMAIN pluginData THEN pluginData["css"]
                                                        ELSE None,
          loader |-> "css",
          pluginName |-> pluginName,
          resolveDir |-> Dirname(PathResolve(BuildRoot, RelPathOf(pluginData))),
          pluginData |-> pluginData]

\* ------------------------------------------------------- loader pipeline
IdleReq ==
  [pc |-> "idle", name |-> "", resolved |-> None, absPath |-> <<>>,
   built |-> None, result |-> None, error |-> None,
   cached |-> None, fromCache |-> FALSE, compiled |-> FALSE, source |-> None,
   builtResolved |-> None, builtLoaded |-> None, events |-> <<>>]

Log(r, e) == Append(req[r].events, e)

\* the host meets an import of a stylesheet in a source file and runs the
\* resolve callback registered for it
ResolveToBuilding(r) ==
  /\ req[r].pc = "idle"
  /\ \A q \in 1..(r - 1) : req[q].pc # "idle"
  /\ \E name \in ImportNames :
       /\ HostResolveHandler("file", <<".", name>>) = "onResolveModulesCss"
       /\ \E got \in HostResolveOutcomes(name, BuildRoot) :
             IF "error" \in DOMAIN got
               THEN req' = [req EXCEPT ![r] =
                      [@ EXCEPT !.pc = "resolveFailed", !.name = name,
                                !.error = got.error]]
               ELSE req' = [req EXCEPT ![r] =
                      [@ EXCEPT !.pc = "resolved", !.name = name,
                                !.resolved = onResolveModulesCss(got.path, EmptyData),
                                !.events = Log(r, "resolve-building")]]
  /\ UNCHANGED <<initialWatch, optionsWatch, optionsInject, fileContent, cache,
                 lastDone, compileCount, cacheTouched, edits>>
  /\ UNCHANGED <<varsEnd, varsBind, varsOld>>

\* onLoadModulesCss up to the await of cache.get: with the cache in use the
\* probe reads the file and compares it with the stored content, and the
\* handler is suspended with the probe's outcome; without it the handler
\* goes straight on to the compile
LoadBuildingProbe(r) ==
  /\ req[r].pc = "resolved"
  /\ HostLoadHandler(req[r].resolved.namespace, req[r].resolved.path) = "onLoadModulesCss"
  /\ LET absPath == LoadAbsPath(req[r].resolved.path)
         uc == useCache(initialWatch, optionsWatch)
         seen == [req[r] EXCEPT !.absPath = absPath]
     IN /\ cacheTouched' = (cacheTouched \/ uc)
        /\ IF uc
             THEN req' = [req EXCEPT ![r] =
                    [seen EXCEPT !.pc = "probed",
                                 !.cached = CacheGet(cache, absPath, fileContent)]]
             ELSE req' = [req EXCEPT ![r] = [seen EXCEPT !.pc = "reading"]]
  /\ UNCHANGED <<initialWatch, optionsWatch, optionsInject, fileContent, cache,
                 lastDone, compileCount, edits>>
  /\ UNCHANGED <<varsEnd, varsBind, varsOld>>

\* onLoadModulesCss resumes after cache.get: a hit is returned as it is
LoadBuildingResume(r) ==
  /\ req[r].pc = "probed"
  /\ IF req[r].cached # None
       THEN req' = [req EXCEPT ![r] =
              [@ EXCEPT !.pc = "loaded", !.result = req[r].cached,
                        !.fromCache = TRUE,
                        !.events = Log(r, "load-building")]]
       ELSE req' = [req EXCEPT ![r] = [@ EXCEPT !.pc = "reading"]]
  /\ UNCHANGED <<initialWatch, optionsWatch, optionsInject, fileContent, cache,
                 lastDone, compileCount, cacheTouched, edits>>
  /\ UNCHANGED <<varsEnd, varsBind, varsOld>>

\* buildCssModulesJs: read the source, transform it, build the JS binding
LoadBuildingCompile(r) ==
  /\ req[r].pc = "reading"
  /\ LET absPath == req[r].absPath
         built == buildCssModulesJs(absPath, fileContent[absPath], optionsInject)
         ran == [req[r] EXCEPT !.compiled = TRUE, !.source = fileContent[absPath]]
     IN /\ compileCount' = [compileCount EXCEPT ![absPath] = @ + 1]
        /\ IF built.ok
             THEN req' = [req EXCEPT ![r] =
                    [ran EXCEPT !.pc = "compiled", !.built = built]]
             ELSE req' = [req EXCEPT ![r] =
                    [ran EXCEPT !.pc = "loadFailed", !.error = built.error]]
  /\ UNCHANGED <<initialWatch, optionsWatch, optionsInject, fileContent, cache,
                 lastDone, cacheTouched, edits>>
  /\ UNCHANGED <<varsEnd, varsBind, varsOld>>

\* onLoadModulesCss after the compile: assemble the result; with the cache
\* in use store it and suspend at the await of cache.set, without it return
LoadBuildingStore(r) ==
  /\ req[r].pc = "compiled"
  /\ LET absPath == req[r].absPath
         pluginData == req[r].resolved.pluginData
         digest == Sha256Hex(RelPathOf(pluginData))
         result == LoadResult(pluginData, req[r].built, digest)
         uc == useCache(initialWatch, optionsWatch)
     IN /\ IF uc
             THEN /\ req' = [req EXCEPT ![r] =
                       [@ EXCEPT !.pc = "stored", !.result = result]]
                  /\ cache' = CacheSet(cache, absPath, result,
                                       StoredInput(req[r].built.originCss,
                                                   fileContent[absPath]))
             ELSE /\ req' = [req EXCEPT ![r] =
                       [@ EXCEPT !.pc = "loaded", !.result = result,
                                 !.events = Log(r, "load-building")]]
                  /\ UNCHANGED cache
        /\ cacheTouched' = (cacheTouched \/ uc)
        /\ lastDone' = [lastDone EXCEPT ![absPath] =
                          [src |-> req[r].built.originCss, result |-> result]]
  /\ UNCHANGED <<initialWatch, optionsWatch, optionsInject, fileContent,
                 compileCount, edits>>
  /\ UNCHANGED <<varsEnd, varsBind, varsOld>>

\* onLoadModulesCss resumes after cache.set and returns the result
LoadBuildingReturn(r) ==
  /\ req[r].pc = "stored"
  /\ req' = [req EXCEPT ![r] =
       [@ EXCEPT !.pc = "loaded", !.events = Log(r, "load-building")]]
  /\ UNCHANGED <<initialWatch, optionsWatch, optionsInject, fileContent, cache,
                 lastDone, compileCount, cacheTouched, edits>>
  /\ UNCHANGED <<varsEnd, varsBind, varsOld>>

\* the host resolves the import inside the JS binding module
ResolveToBuilt(r) ==
  /\ req[r].pc = "loaded"
  /\ ModuleLoads(req[r].result.contents)
  /\ HostResolveHandler(req[r].resolved.namespace, req[r].result.contents.import)
       = "onResolveBuiltModulesCss"
  /\ req' = [req EXCEPT ![r] =
       [@ EXCEPT !.pc = "builtResolved",
                 !.builtResolved = onResolveBuiltModulesCss(req[r].result.pluginData),
                 !.events = Log(r, "resolve-built")]]
  /\ UNCHANGED <<initialWatch, optionsWatch, optionsInject, fileContent, cache,
                 lastDone, compileCount, cacheTouched, edits>>
  /\ UNCHANGED <<varsEnd, varsBind, varsOld>>

\* the host loads the built virtual module
LoadBuilt(r) ==
  /\ req[r].pc = "builtResolved"
  /\ HostLoadHandler(req[r].builtResolved.namespace, req[r].builtResolved.path)
       = "onLoadBuiltModulesCss"
  /\ LET got == onLoadBuiltModulesCss(req[r].builtResolved.pluginData)
     IN IF "error" \in DOMAIN got
          THEN req' = [req EXCEPT ![r] =
                 [@ EXCEPT !.pc = "builtLoadFailed", !.error = got.error]]
          ELSE req' = [req EXCEPT ![r] =
                 [@ EXCEPT !.pc = "done", !.builtLoaded = got,
                           !.events = Log(r, "load-built")]]
  /\ UNCHANGED <<initialWatch, optionsWatch, optionsInject, fileContent, cache,
                 lastDone, compileCount, cacheTouched, edits>>
  /\ UNCHANGED <<varsEnd, varsBind, varsOld>>

\* the stylesheet that is being worked on during the session
Edited == {<<BuildRoot, "a.module.css">>}

\* somebody saves a source stylesheet with new content
EditFile ==
  /\ edits < MaxEdits
  /\ \E p \in Edited, c \in Contents :
       /\ c # fileContent[p]
       /\ fileContent' = [fileContent EXCEPT ![p] = c]
  /\ edits' = edits + 1
  /\ UNCHANGED <<initialWatch, optionsWatch, optionsInject, cache, req,
                 lastDone, compileCount, cacheTouched>>
  /\ UNCHANGED <<varsEnd, varsBind, varsOld>>

\* the option combinations builds are started with:
\* <<initialOptions.watch, options.watch, options.inject>>
OptionSets ==
  {<<Undef, Undef, JsFalse>>, <<Undef, JsTrue, JsTrue>>,
   <<JsTrue, JsFalse, JsFalse>>, <<JsFalse, JsTrue, JsTrue>>}

InitLoad ==
  /\ \E o \in OptionSets :
       /\ initialWatch = o[1]
       /\ optionsWatch = o[2]
       /\ optionsInject = o[3]
  /\ fileContent = [p \in AbsPaths |->
                      IF Basename(p) = "a.module.css" THEN CssPlain ELSE CssOther]
  /\ cache = [p \in AbsPaths |-> None]
  /\ req = [r \in Reqs |-> IdleReq]
  /\ lastDone = [p \in AbsPaths |-> None]
  /\ compileCount = [p \in AbsPaths |-> 0]
  /\ cacheTouched = FALSE
  /\ edits = 0

NextLoad ==
  \/ \E r \in Reqs : ResolveToBuilding(r)
  \/ \E r \in Reqs : LoadBuildingProbe(r)
  \/ \E r \in Reqs : LoadBuildingResume(r)
  \/ \E r \in Reqs : LoadBuildingCompile(r)
  \/ \E r \in Reqs : LoadBuildingStore(r)
  \/ \E r \in Reqs : LoadBuildingReturn(r)
  \/ \E r \in Reqs : ResolveToBuilt(r)
  \/ \E r \in Reqs : LoadBuilt(r)
  \/ EditFile

\* ------------------------------------------------- post-build injection
BindIdle ==
  /\ sheet = None
  /\ enumeration = <<>>
  /\ enumsSeen = {}
  /\ binding = None
  /\ timers = 0
  /\ injectDefined = FALSE
  /\ injectCalls = 0
  /\ reads = 0
  /\ lastRead = None

OutDir == "out"
NoFile == <<>>
buildId == "build-1"
\* output files a build can list: <<directory, base name, extension>>
OutputFiles ==
  {<<OutDir, "a", ".js">>, <<OutDir, "b", ".js">>, <<OutDir, "chunk", ".js">>,
   <<OutDir, "a", ".css">>, <<OutDir, "b", ".css">>, <<OutDir, "s", ".css">>}
Extname(f) == f[3]
\* result.metafile.outputs[f].entryPoint
EntryPointOf(f) ==
  IF Extname(f) = ".js" /\ f[2] \in {"a", "b"} THEN f[2]
  ELSE IF f[2] = "s" THEN "s"
  ELSE Undef
\* the css bundle the build emitted for an entry output
CssBundleOf(f) == <<f[1], f[2], ".css">>
JsKinds == {".js", ".mjs", ".cjs"}

\* what a build wrote to an output file
BuiltFile(f) == [src |-> f, mapRefs |-> 0, publicPath |-> TRUE, injected |-> <<>>]
AllFiles == OutputFiles

\* variant: the kind of the output is not looked at
IsRequestedEntry(f, entries) ==
  /\ Truthy(EntryPointOf(f))
  /\ EntryPointOf(f) \in entries
\* the test a manifest output passes to become the matched entry
IsRequestedJsEntry(f, entries) ==
  /\ Truthy(EntryPointOf(f))
  /\ EntryPointOf(f) \in entries
  /\ Extname(f) \in JsKinds

\* variant: a later output replaces an earlier match
EntryAlwaysOpen(cur) == TRUE
\* !entryToInject
EntryUnset(cur) == cur = NoFile

\* the synchronous first part of the callbacks, run over the outputs in order
RECURSIVE ScanOutputs(_, _, _, _)
ScanOutputs(outs, entries, i, cur) ==
  IF i > Len(outs) THEN cur
  ELSE ScanOutputs(outs, entries, i + 1,
                   IF EntryUnset(cur) /\ IsRequestedJsEntry(outs[i], entries)
                     THEN outs[i] ELSE cur)

\* esbuild.transform(css, { loader: 'css', minify: true, sourcemap: false })
transformCss(css) == [minified |-> css.src]

\* typeof options.inject === 'string' ? options.inject : 'head'
IsJsString(v) == v \notin {JsTrue, JsFalse, Undef}
container(inject) == IF IsJsString(inject) THEN inject ELSE "head"

\* the injector: a global function named from the build id that puts the
\* css into the container once
buildInjectCode(cont, allCss, id) ==
  [fn |-> <<"__inject_", id, "__">>, container |-> cont, css |-> allCss, styleId |-> id]

\* variant: the injector code is written twice
tmpJsCodeTwice(imports, jsCode) == [imports |-> imports, code |-> <<jsCode, jsCode>>]
\* `${imports}\n${jsCode}`
tmpJsCode(imports, jsCode) == [imports |-> imports, code |-> <<jsCode>>]

\* the output the nested build writes: outdir/<entryName>.js
NestedTarget(entry) == <<OutDir, entry[2], ".js">>
\* the bundle of the temporary entry: the real entry, then the code after it
NestedBundle(entryContent, tmp) ==
  [entryContent EXCEPT !.injected = @ \o tmp.code]

\* variant: the step runs whatever options.inject is
InjectAlways(inject) == TRUE
\* if (options.inject)
InjectConfigured(inject) == Truthy(inject)

\* whether the registered callback returns (awaits) the promise of onEnd
HookAwaitsOnEnd == FALSE

CssPositions == {i \in 1..Len(manifest) : Extname(manifest[i]) = ".css"}

\* the host calls the registered onEnd callback: onEnd runs up to its first
\* suspension and the callback returns
OnEndHook ==
  /\ endPc = "idle"
  /\ IF ~InjectConfigured(optionsInject)
       THEN /\ endPc' = "finished"
            /\ hook' = "fulfilled"
            /\ UNCHANGED <<entryToInject, cssPc>>
       ELSE /\ endPc' = "joining"
            /\ entryToInject' = ScanOutputs(manifest, entryPoints, 1, NoFile)
            /\ cssPc' = [i \in 1..Len(manifest) |->
                           IF i \in CssPositions THEN "reading" ELSE "done"]
            /\ hook' = IF HookAwaitsOnEnd THEN "pending" ELSE "fulfilled"
  /\ UNCHANGED <<manifest, entryPoints, sourcemap, cssText, cssContents,
                 injectedCode, outFiles, tmpFile, nestedBuilds>>
  /\ UNCHANGED <<varsLoad, varsBind, varsOld>>

\* readFile(fullpath) of one css output completes
CssRead(i) ==
  /\ endPc = "joining"
  /\ cssPc[i] = "reading"
  /\ cssPc' = [cssPc EXCEPT ![i] = "transforming"]
  /\ cssText' = [cssText EXCEPT ![i] = outFiles[manifest[i]]]
  /\ UNCHANGED <<manifest, entryPoints, sourcemap, endPc, entryToInject, cssContents,
                 injectedCode, outFiles, tmpFile, hook, nestedBuilds>>
  /\ UNCHANGED <<varsLoad, varsBind, varsOld>>

\* transformCss of one css output completes and its result is pushed
CssTransform(i) ==
  /\ endPc = "joining"
  /\ cssPc[i] = "transforming"
  /\ cssPc' = [cssPc EXCEPT ![i] = "done"]
  /\ cssContents' = Append(cssContents, transformCss(cssText[i]))
  /\ UNCHANGED <<manifest, entryPoints, sourcemap, endPc, entryToInject, cssText,
                 injectedCode, outFiles, tmpFile, hook, nestedBuilds>>
  /\ UNCHANGED <<varsLoad, varsBind, varsOld>>

\* the promise of onEnd settles; the callback's promise follows it only when
\* the callback awaited it
Settle(outcome) == IF hook = "pending" THEN outcome ELSE hook

\* variant: a matched entry is enough
HasEntry(entry, blobs) == entry # NoFile
\* entryToInject && cssContents.length
HasEntryAndCss(entry, blobs) == entry # NoFile /\ Len(blobs) > 0

\* Promise.all resolves: build the injector and start buildJs, or finish
Join ==
  /\ endPc = "joining"
  /\ \A i \in 1..Len(manifest) : cssPc[i] = "done"
  /\ IF HasEntryAndCss(entryToInject, cssContents)
       THEN /\ injectedCode' = buildInjectCode(container(optionsInject), cssContents, buildId)
            /\ endPc' = IF sourcemap = "off" THEN "writeTmp" ELSE "fixMap"
            /\ UNCHANGED hook
       ELSE /\ endPc' = "finished"
            /\ hook' = Settle("fulfilled")
            /\ UNCHANGED injectedCode
  /\ UNCHANGED <<manifest, entryPoints, sourcemap, entryToInject, cssPc, cssText,
                 cssContents, outFiles, tmpFile, nestedBuilds>>
  /\ UNCHANGED <<varsLoad, varsBind, varsOld>>

\* buildJs: the source map reference of the entry is appended or rewritten
FixSourceMap ==
  /\ endPc = "fixMap"
  /\ outFiles' = [outFiles EXCEPT ![entryToInject] =
                    IF sourcemap = "external"
                      THEN [@ EXCEPT !.mapRefs = @ + 1]
                      ELSE [@ EXCEPT !.publicPath = FALSE]]
  /\ endPc' = "writeTmp"
  /\ UNCHANGED <<manifest, entryPoints, sourcemap, entryToInject, cssPc, cssText,
                 cssContents, injectedCode, tmpFile, hook, nestedBuilds>>
  /\ UNCHANGED <<varsLoad, varsBind, varsOld>>

\* buildJs: the temporary entry file is written
WriteTmp ==
  /\ endPc = "writeTmp"
  /\ tmpFile' = tmpJsCode(entryToInject, injectedCode)
  /\ endPc' = "nested"
  /\ UNCHANGED <<manifest, entryPoints, sourcemap, entryToInject, cssPc, cssText,
                 cssContents, injectedCode, outFiles, hook, nestedBuilds>>
  /\ UNCHANGED <<varsLoad, varsBind, varsOld>>

\* buildJs: the nested build of the temporary entry ends
NestedBuild ==
  /\ endPc = "nested"
  /\ \E ok \in BOOLEAN :
       IF ok
         THEN /\ outFiles' = [outFiles EXCEPT ![NestedTarget(entryToInject)] =
                               NestedBundle(outFiles[tmpFile.imports], tmpFile)]
              /\ nestedBuilds' = nestedBuilds + 1
              /\ endPc' = "unlink"
              /\ UNCHANGED hook
         ELSE /\ endPc' = "failed"
              /\ hook' = Settle("rejected")
              /\ UNCHANGED <<outFiles, nestedBuilds>>
  /\ UNCHANGED <<manifest, entryPoints, sourcemap, entryToInject, cssPc, cssText,
                 cssContents, injectedCode, tmpFile>>
  /\ UNCHANGED <<varsLoad, varsBind, varsOld>>

\* buildJs: the temporary entry file is removed and onEnd returns
Unlink ==
  /\ endPc = "unlink"
  /\ tmpFile' = None
  /\ endPc' = "finished"
  /\ hook' = Settle("fulfilled")
  /\ UNCHANGED <<manifest, entryPoints, sourcemap, entryToInject, cssPc, cssText,
                 cssContents, injectedCode, outFiles, nestedBuilds>>
  /\ UNCHANGED <<varsLoad, varsBind, varsOld>>

\* sequences of distinct output files, up to a length
RECURSIVE Listings(_, _)
Listings(S, n) ==
  IF n = 0 THEN {<<>>}
  ELSE {<<>>} \cup {<<f>> \o rest : f \in S, rest \in Listings(S, n - 1)}
Distinct(q) == \A i, j \in 1..Len(q) : i # j => q[i] # q[j]
Manifests == {q \in Listings(OutputFiles, MaxOutputs) : Distinct(q)}

InjectValues == {JsFalse, JsTrue, "#app"}
EntryRequests == {{"a", "b"}, {"b", "s"}}

EndIdle ==
  /\ endPc = "idle"
  /\ entryToInject = NoFile
  /\ cssPc = [i \in 1..Len(manifest) |-> "idle"]
  /\ cssText = [i \in 1..Len(manifest) |-> None]
  /\ cssContents = <<>>
  /\ injectedCode = None
  /\ outFiles = [f \in AllFiles |->
                   IF \E i \in 1..Len(manifest) : manifest[i] = f
                     THEN BuiltFile(f) ELSE None]
  /\ tmpFile = None
  /\ hook = "notCalled"
  /\ nestedBuilds = 0

\* a stylesheet has an output of its own only as a requested entry point
StylesheetEntry == <<OutDir, "s", ".css">>

InitEnd ==
  /\ manifest \in Manifests
  /\ entryPoints \in EntryRequests
  /\ (\E i \in 1..Len(manifest) : manifest[i] = StylesheetEntry)
       => EntryPointOf(StylesheetEntry) \in entryPoints
  /\ sourcemap \in {"off", "external", "publicInline"}
  /\ optionsInject \in InjectValues
  /\ EndIdle
  /\ BindIdle
  /\ OldIdle
  /\ initialWatch = Undef /\ optionsWatch = Undef
  /\ fileContent = [p \in AbsPaths |-> CssPlain]
  /\ cache = [p \in AbsPaths |-> None]
  /\ req = [r \in Reqs |-> IdleReq]
  /\ lastDone = [p \in AbsPaths |-> None]
  /\ compileCount = [p \in AbsPaths |-> 0]
  /\ cacheTouched = FALSE
  /\ edits = 0

NextEnd ==
  \/ OnEndHook
  \/ \E i \in 1..Len(manifest) : CssRead(i)
  \/ \E i \in 1..Len(manifest) : CssTransform(i)
  \/ Join
  \/ FixSourceMap
  \/ WriteTmp
  \/ NestedBuild
  \/ Unlink

\* the post-build step of one build
SpecEnd == InitEnd /\ [][NextEnd]_vars

\* the loader pipeline of one build session; the post-build step is not run
Init ==
  /\ InitLoad
  /\ manifest = <<>> /\ entryPoints = {} /\ sourcemap = "off"
  /\ EndIdle
  /\ BindIdle
  /\ OldIdle
Next == NextLoad
Spec == Init /\ [][Next]_vars

\* ------------------------------------------- the JS binding of one sheet
MaxClasses == 2      \* classes in the stylesheet compiled on its own
MaxCompiles == 2     \* compiles of that stylesheet
MaxReads == 2        \* property reads on the default export

\* class names a stylesheet is written with
Identifiers == {<<"i">>, <<"f", "-", "i">>, <<"f", "I">>, <<"I", "f">>}
ClassSets == {S \in SUBSET Identifiers : S # {} /\ Cardinality(S) <= MaxClasses}
SheetInputs ==
  {[path |-> p, content |-> [ok |-> TRUE, classes |-> S], inject |-> i] :
     p \in AbsPaths, S \in ClassSets, i \in {JsFalse, JsTrue}}

\* the orders in which the transform can list the classes of its export table
RECURSIVE Enumerations(_)
Enumerations(S) ==
  IF S = {} THEN {<<>>}
  ELSE UNION {{<<x>> \o rest : rest \in Enumerations(S \ {x})} : x \in S}

\* Object.keys(exports): the keys in the order the table lists them
ObjectKeys(order) == order

\* one key put into an already sorted array
RECURSIVE InsertKey(_, _)
InsertKey(k, q) ==
  IF q = <<>> THEN <<k>>
  ELSE IF StrLess(k, q[1]) THEN <<k>> \o q
  ELSE <<q[1]>> \o InsertKey(k, Tail(q))

\* variant: the keys are used in the order the transform listed them
KeysAsEnumerated(q) == q
\* Array.prototype.sort() without a comparator: ascending by code units
RECURSIVE SortKeys(_)
SortKeys(q) ==
  IF q = <<>> THEN <<>> ELSE InsertKey(q[1], SortKeys(Tail(q)))

\* buildCssModulesJs for a transform that lists its export table in `order`
buildCssModulesJsEnumerated(fullPath, content, inject, order) ==
  IF ~content.ok
    THEN [ok |-> FALSE,
          error |-> [type |-> "CompileError", file |-> getRelativePath(fullPath)]]
    ELSE BindingFromKeys(fullPath, content, inject, SortKeys(ObjectKeys(order)))

\* a property the object does not have
Missing == [tag |-> "undefined"]
\* source[key] on the object literal of the default export: of two properties
\* written with the same key the later one is the object's
ObjectGet(pairs, key) ==
  LET at == {k \in 1..Len(pairs) : pairs[k][1] = key}
  IN IF at = {} THEN Missing
     ELSE pairs[CHOOSE k \in at : \A j \in at : j <= k][2]

\* variant: the get trap calls the global function itself
ProxyGetSync(pairs, key, defined) ==
  [value |-> ObjectGet(pairs, key), scheduled |-> 0,
   called |-> IF defined THEN 1 ELSE 0]
\* the get trap of the proxy: schedule the injection, return source[key]
ProxyGet(pairs, key, defined) ==
  [value |-> ObjectGet(pairs, key), scheduled |-> 1, called |-> 0]
\* a read on the plain default export
PlainGet(pairs, key) ==
  [value |-> ObjectGet(pairs, key), scheduled |-> 0, called |-> 0]

\* keys a consumer reads: the kebab-case names and one the sheet does not have
ReadKeys == {kebabCase(c) : c \in Identifiers} \cup {<<"F">>}

\* the stylesheet is compiled; the transform lists its exports in some order
CompileSheet ==
  /\ Cardinality(enumsSeen) < MaxCompiles
  /\ \E order \in Enumerations(sheet.content.classes) :
       /\ order \notin enumsSeen
       /\ enumeration' = order
       /\ enumsSeen' = enumsSeen \cup {order}
       /\ binding' = buildCssModulesJsEnumerated(sheet.path, sheet.content,
                                                 sheet.inject, order)
  /\ UNCHANGED <<sheet, timers, injectDefined, injectCalls, reads, lastRead>>
  /\ UNCHANGED <<varsLoad, varsEnd, varsOld>>

\* code of the bundle reads a property of the binding's default export
ReadDefault ==
  /\ binding # None /\ binding.ok
  /\ ModuleLoads(binding.js)
  /\ reads < MaxReads
  /\ \E key \in ReadKeys :
       LET got == IF binding.js.proxy
                    THEN ProxyGet(binding.js.default, key, injectDefined)
                    ELSE PlainGet(binding.js.default, key)
       IN /\ lastRead' = [key |-> key, value |-> got.value]
          /\ timers' = timers + got.scheduled
          /\ injectCalls' = injectCalls + got.called
  /\ reads' = reads + 1
  /\ UNCHANGED <<sheet, enumeration, enumsSeen, binding, injectDefined>>
  /\ UNCHANGED <<varsLoad, varsEnd, varsOld>>

\* a scheduled callback runs:
\* window.__inject_<buildId>__ && window.__inject_<buildId>__()
TimerFire ==
  /\ timers > 0
  /\ timers' = timers - 1
  /\ injectCalls' = IF injectDefined THEN injectCalls + 1 ELSE injectCalls
  /\ UNCHANGED <<sheet, enumeration, enumsSeen, binding, injectDefined, reads, lastRead>>
  /\ UNCHANGED <<varsLoad, varsEnd, varsOld>>

\* the injector code of the entry bundle runs and defines the global function
InstallInjector ==
  /\ ~injectDefined
  /\ Truthy(sheet.inject)
  /\ injectDefined' = TRUE
  /\ UNCHANGED <<sheet, enumeration, enumsSeen, binding, timers, injectCalls,
                 reads, lastRead>>
  /\ UNCHANGED <<varsLoad, varsEnd, varsOld>>

InitBind ==
  /\ sheet \in SheetInputs
  /\ enumeration = <<>>
  /\ enumsSeen = {}
  /\ binding = None
  /\ timers = 0
  /\ injectDefined = FALSE
  /\ injectCalls = 0
  /\ reads = 0
  /\ lastRead = None
  /\ initialWatch = Undef /\ optionsWatch = Undef
  /\ optionsInject = sheet.inject
  /\ fileContent = [p \in AbsPaths |-> IF p = sheet.path THEN sheet.content ELSE CssPlain]
  /\ cache = [p \in AbsPaths |-> None]
  /\ req = [r \in Reqs |-> IdleReq]
  /\ lastDone = [p \in AbsPaths |-> None]
  /\ compileCount = [p \in AbsPaths |-> 0]
  /\ cacheTouched = FALSE
  /\ edits = 0
  /\ manifest = <<>> /\ entryPoints = {} /\ sourcemap = "off"
  /\ EndIdle
  /\ OldIdle

NextBind ==
  \/ CompileSheet
  \/ ReadDefault
  \/ TimerFire
  \/ InstallInjector

\* one stylesheet, its compiles, and its binding module in the page
SpecBinding == InitBind /\ [][NextBind]_vars

\* --------------------------------------------- the older implementation
MaxOldResolves == 4  \* resolves of stylesheets in one process

\* hash.update(cssFullPath) on the shared sha256 object
HashUpdate(state, cssFullPath) == state \o cssFullPath
\* hash.copy().digest('hex'): the digest of everything fed so far
HashDigest(state) == <<"sha256">> \o state
\* the digest of a path on its own
PathDigest(cssFullPath) == HashDigest(HashUpdate(<<>>, cssFullPath))

\* the stylesheets of the older build, with their content
OldContent(cssFullPath) ==
  IF Basename(cssFullPath) = "a.module.css" THEN CssPlain ELSE CssOther

\* buildCssModulesJS: the JS module and the css of one stylesheet
buildCssModulesJS(cssFullPath, options, digest) ==
  LET classes == OldContent(cssFullPath).classes
      css == [file |-> cssFullPath, rules |-> classes]
  IN [jsContent |->
        IF options.bundle /\ options.v2
          THEN [default |-> classes]
          ELSE [digest |-> digest, css |-> css,
                styleId |-> IF options.inject = JsTrue THEN digest ELSE None,
                default |-> classes],
      cssContent |-> css]

\* the onResolve callback of the older plugin for an import of a stylesheet
OldResolve ==
  /\ oldResolves < MaxOldResolves
  /\ \E p \in AbsPaths :
       LET fed == HashUpdate(hashState, p)
           digest == HashDigest(fed)
       IN /\ hashState' = fed
          /\ oldModules' = [oldModules EXCEPT ![p] =
                              buildCssModulesJS(p, oldOptions, digest)]
          /\ oldFirstDigest' = [oldFirstDigest EXCEPT ![p] =
                                  IF @ = None THEN digest ELSE @]
  /\ oldResolves' = oldResolves + 1
  /\ UNCHANGED oldOptions
  /\ UNCHANGED <<varsLoad, varsEnd, varsBind>>

InitOld ==
  /\ oldOptions \in [bundle : BOOLEAN, v2 : BOOLEAN, inject : {JsTrue, JsFalse}]
  /\ hashState = <<>>
  /\ oldModules = [p \in AbsPaths |-> None]
  /\ oldFirstDigest = [p \in AbsPaths |-> None]
  /\ oldResolves = 0
  /\ initialWatch = Undef /\ optionsWatch = Undef
  /\ optionsInject = oldOptions.inject
  /\ fileContent = [p \in AbsPaths |-> OldContent(p)]
  /\ cache = [p \in AbsPaths |-> None]
  /\ req = [r \in Reqs |-> IdleReq]
  /\ lastDone = [p \in AbsPaths |-> None]
  /\ compileCount = [p \in AbsPaths |-> 0]
  /\ cacheTouched = FALSE
  /\ edits = 0
  /\ manifest = <<>> /\ entryPoints = {} /\ sourcemap = "off"
  /\ EndIdle
  /\ BindIdle

NextOld == OldResolve

\* the resolves of one process of the older implementation
SpecOld == InitOld /\ [][NextOld]_vars

\* ------------------------------------------------------ loader properties
\* watch mode is on for the build: initialOptions.watch, or, when the build
\* does not say, the plugin's own watch option
WatchActive ==
  initialWatch = JsTrue \/ (initialWatch = Undef /\ optionsWatch = JsTrue)

Probed(r) == req[r].pc \notin {"idle", "resolved", "resolveFailed"}
Returned(r) == req[r].pc \in {"loaded", "builtResolved", "done"}
HookOrder == <<"resolve-building", "load-building", "resolve-built", "load-built">>
IsPrefix(a, b) == Len(a) <= Len(b) /\ a = SubSeq(b, 1, Len(a))
\* what a fresh compile of content c returns for the import of request r
\* (None when that content does not compile)
FreshResult(r, c) ==
  LET built == buildCssModulesJs(LoadAbsPath(req[r].resolved.path), c, optionsInject)
  IN IF built.ok
       THEN LoadResult(req[r].resolved.pluginData, built, Sha256Hex(req[r].resolved.path))
       ELSE None
HasReservedClass(c) ==
  c.ok /\ \E k \in c.classes : camelCase(k) \in ReservedWords
\* request r leaves the cache probe of onLoadModulesCss in this step
Probes(r) == req[r].pc = "resolved" /\ req'[r].pc # "resolved"
CompiledLoads(p) == {r \in Reqs : req[r].absPath = p /\ req[r].compiled}

\* C1: with caching on, the cache probe of a load-building call that
\* follows the store of an earlier load of the same path finds that load's
\* result when the content on disk is still the content the result was
\* compiled from, and finds nothing when the content differs; a call whose
\* probe found a result returns it without calling the compiler, a call
\* whose probe found nothing goes on to call the compiler, and the compiler
\* runs once for each call that is not served from the cache.
C1_UnchangedContentCompilesOnce ==
  /\ [](WatchActive =>
          /\ \A p \in AbsPaths : compileCount[p] = Cardinality(CompiledLoads(p))
          /\ \A r \in Reqs : req[r].fromCache => ~req[r].compiled)
  /\ [][WatchActive =>
          \A r \in Reqs :
            LET p == LoadAbsPath(req[r].resolved.path)
            IN /\ (Probes(r) /\ lastDone[p] # None) =>
                    /\ req'[r].pc = "probed"
                    /\ req'[r].cached = IF lastDone[p].src = fileContent[p]
                                          THEN lastDone[p].result ELSE None
               /\ (req[r].pc = "probed" /\ req'[r].pc # "probed") =>
                    IF req[r].cached # None
                      THEN /\ req'[r].pc = "loaded" /\ req'[r].fromCache
                           /\ req'[r].result = req[r].cached
                           /\ compileCount' = compileCount
                      ELSE req'[r].pc = "reading" /\ ~req'[r].fromCache
               /\ (req[r].pc = "reading" /\ req'[r].pc # "reading") =>
                    /\ compileCount'[p] = compileCount[p] + 1
                    /\ req'[r].source = fileContent[p]]_vars

W1_SecondLoadServedFromCache ==
  /\ WatchActive
  /\ \E r1, r2 \in Reqs :
       /\ r1 # r2 /\ req[r1].absPath = req[r2].absPath
       /\ Returned(r1) /\ req[r1].compiled
       /\ Returned(r2) /\ req[r2].fromCache /\ ~req[r2].compiled
       /\ req[r2].result = req[r1].result
       /\ compileCount[req[r1].absPath] = 1

\* C2 as stated: whenever load-building returns a result taken from the
\* cache, the result is the result of compiling the content the source file
\* has at that moment.
C2_CachedResultMatchesSource ==
  [][\A r \in Reqs :
       (req[r].pc = "probed" /\ req'[r].pc = "loaded") =>
         req'[r].result = FreshResult(r, fileContent'[req[r].absPath])]_vars

\* C3: with watch mode off, load-building neither reads nor writes the cache
\* and every load that returns has called the compiler.
C3_NoWatchBypassesCache ==
  ~WatchActive =>
    /\ ~cacheTouched
    /\ cache = [p \in AbsPaths |-> None]
    /\ \A r \in Reqs : ~req[r].fromCache /\ (Returned(r) => req[r].compiled)
    /\ \A p \in AbsPaths :
         compileCount[p] =
           Cardinality({r \in Reqs : req[r].absPath = p
                          /\ req[r].pc \notin {"idle", "resolved", "resolveFailed", "reading"}})

W3_TwoLoadsTwoCompiles ==
  /\ ~WatchActive
  /\ optionsWatch = JsTrue
  /\ \E p \in AbsPaths :
       /\ compileCount[p] = 2
       /\ edits = 0
       /\ \A r \in Reqs : r <= 2 => req[r].absPath = p /\ Returned(r)

\* C4: the hooks of one import run in the order resolve-to-building,
\* load-building, resolve-to-built, load-built; the first redirect goes to
\* the plugin namespace with the building suffix and the JS binding imports
\* the path with the built suffix.
C4_HookOrder ==
  \A r \in Reqs :
    /\ IsPrefix(req[r].events, HookOrder)
    /\ req[r].pc \notin {"idle", "resolveFailed"} =>
         /\ req[r].resolved.namespace = pluginNamespace
         /\ req[r].resolved.suffix = buildingCssSuffix
         /\ req[r].name \in StyleNames => Basename(req[r].resolved.path) = req[r].name
    /\ Returned(r) =>
         /\ Basename(req[r].result.contents.import) = builtCssSuffix
         /\ req[r].name \in {req[r].result.contents.import[k] :
                               k \in 1..Len(req[r].result.contents.import)}
    /\ req[r].pc \in {"builtResolved", "done"} =>
         /\ req[r].builtResolved.namespace = pluginNamespace
         /\ Basename(req[r].builtResolved.path) = builtCssSuffix
    /\ req[r].pc = "done" => req[r].events = HookOrder /\ req[r].result # None

W4_AllFourHooksRan ==
  \E r \in Reqs : req[r].pc = "done" /\ req[r].events = HookOrder

\* C5: load-built returns, as a css-typed asset, the css text that the
\* load-building result of the same import carries, and the relative path
\* set by resolve-to-building reaches resolve-to-built and load-built.
C5_BuiltCssIsCarriedCss ==
  \A r \in Reqs :
    /\ req[r].pc \in {"builtResolved", "done"} =>
         /\ RelPathOf(req[r].builtResolved.pluginData)
              = RelPathOf(req[r].resolved.pluginData)
         /\ RelPathOf(req[r].resolved.pluginData) = <<".", req[r].name>>
    /\ req[r].pc = "done" =>
         /\ req[r].builtLoaded.contents = req[r].result.pluginData["css"]
         /\ \E c \in Contents :
              req[r].builtLoaded.contents = cssWithSourceMap(req[r].absPath, c)
         /\ req[r].builtLoaded.loader = "css"
         /\ RelPathOf(req[r].builtLoaded.pluginData)
              = RelPathOf(req[r].resolved.pluginData)

W5_BuiltLoadedFreshAndCached ==
  \E r1, r2 \in Reqs :
    /\ req[r1].pc = "done" /\ ~req[r1].fromCache
    /\ req[r2].pc = "done" /\ req[r2].fromCache

\* C6: a stylesheet with a class whose camelCase form is a reserved word
\* fails to compile with an error naming the source file, and load-building
\* returns no result for it.
C6_ReservedClassFails ==
  \A r \in Reqs :
    /\ req[r].compiled /\ HasReservedClass(req[r].source) =>
         /\ req[r].pc = "loadFailed"
         /\ req[r].error.type = "ReservedKeyword"
         /\ req[r].error.file = req[r].absPath
         /\ req[r].error.name \in ReservedWords
         /\ req[r].result = None
    /\ Returned(r) =>
         /\ \A k \in DOMAIN req[r].result.pluginData["exports"] :
              camelCase(k) \notin ReservedWords
         /\ ~req[r].fromCache => ~HasReservedClass(req[r].source)

W6_ReservedClassRejected ==
  \E r \in Reqs :
    /\ req[r].pc = "loadFailed" /\ HasReservedClass(req[r].source)
    /\ req[r].error.file = req[r].absPath

\* ---------------------------------------------- post-build step properties
InManifest(f) == \E i \in 1..Len(manifest) : manifest[i] = f
PositionOf(f) == CHOOSE i \in 1..Len(manifest) : manifest[i] = f
FilesAsBuilt == [f \in AllFiles |-> IF InManifest(f) THEN BuiltFile(f) ELSE None]
EntryOutputs == {f \in OutputFiles : InManifest(f) /\ Truthy(EntryPointOf(f))}
InjectionsIn(f) == IF outFiles[f] = None THEN 0 ELSE Len(outFiles[f].injected)
InBuildJs == endPc \in {"fixMap", "writeTmp", "nested", "unlink"}
\* two requested entry points, each with its own stylesheet, and onEnd at its end
TwoEntriesWithCss ==
  /\ Truthy(optionsInject)
  /\ entryPoints = {"a", "b"}
  /\ \A f \in {<<OutDir, "a", ".js">>, <<OutDir, "b", ".js">>} :
       InManifest(f) /\ InManifest(CssBundleOf(f))
  /\ endPc = "finished"

\* C7 as stated: after onEnd every entry output with a css import carries
\* exactly one css blob and an entry output without one is untouched.
C7_OneBlobPerEntryWithCss ==
  (Truthy(optionsInject) /\ entryPoints = {"a", "b"} /\ endPc = "finished") =>
    \A f \in EntryOutputs :
      IF InManifest(CssBundleOf(f))
        THEN InjectionsIn(f) = 1
        ELSE outFiles[f] = BuiltFile(f)

\* C7 amended: with two requested entry points that each import a stylesheet,
\* when onEnd has run to its end the first entry output of the manifest, and
\* no other, carries one injector blob, which holds the css of both
\* stylesheets; the other entry output is as the build wrote it.
C7_OnlyFirstEntryInjected ==
  TwoEntriesWithCss =>
    LET ea == <<OutDir, "a", ".js">>
        eb == <<OutDir, "b", ".js">>
        first == IF PositionOf(ea) < PositionOf(eb) THEN ea ELSE eb
        other == IF first = ea THEN eb ELSE ea
    IN /\ InjectionsIn(first) = 1
       /\ Len(outFiles[first].injected[1].css) = 2
       /\ {outFiles[first].injected[1].css[k] : k \in 1..2}
            = {transformCss(BuiltFile(CssBundleOf(ea))),
               transformCss(BuiltFile(CssBundleOf(eb)))}
       /\ outFiles[other] = BuiltFile(other)
       /\ \A f \in AllFiles \ {first} : outFiles[f] = FilesAsBuilt[f]

W7_SecondEntryLeftWithoutCss ==
  /\ TwoEntriesWithCss
  /\ manifest[1] = <<OutDir, "b", ".js">>
  /\ InjectionsIn(<<OutDir, "b", ".js">>) = 1
  /\ InjectionsIn(<<OutDir, "a", ".js">>) = 0

\* C8: in one build at most one nested build writes an output, and no output
\* file carries more than one injector blob.
C8_AtMostOneInjectionPerEntry ==
  /\ nestedBuilds <= 1
  /\ \A f \in AllFiles : InjectionsIn(f) <= 1
  /\ nestedBuilds = 0 => \A f \in AllFiles : InjectionsIn(f) = 0

W8_OneInjectionDone ==
  /\ endPc = "finished"
  /\ nestedBuilds = 1
  /\ \E f \in EntryOutputs : InjectionsIn(f) = 1

\* C9: without injection configured the post-build step reads no css output,
\* writes no temporary file, runs no nested build and leaves the outputs alone.
C9_NoInjectNoEffect ==
  ~Truthy(optionsInject) =>
    /\ endPc \in {"idle", "finished"}
    /\ outFiles = FilesAsBuilt
    /\ tmpFile = None
    /\ nestedBuilds = 0
    /\ cssContents = <<>>
    /\ \A i \in 1..Len(manifest) : cssPc[i] = "idle" /\ cssText[i] = None

W9_FinishedWithoutInjection ==
  /\ ~Truthy(optionsInject)
  /\ endPc = "finished"
  /\ hook = "fulfilled"
  /\ \E f \in EntryOutputs : EntryPointOf(f) \in entryPoints /\ InManifest(CssBundleOf(f))

\* C10: with injection on, the registered onEnd callback has not settled
\* while buildJs is still writing the temporary file, running the nested
\* build, or removing the temporary file.
C10_HookWaitsForNestedBuild ==
  (Truthy(optionsInject) /\ InBuildJs) => hook \notin {"fulfilled", "rejected"}

\* C11: when the nested build of the injection step fails, the promise of the
\* registered onEnd callback is rejected, so the host ends the build as failed.
C11_NestedFailureReachesHost ==
  endPc = "failed" => hook = "rejected"

\* C12: once the injection step has ended, with the nested build done or
\* failed, the temporary entry file .build.inject.js does not exist.
C12_TmpFileRemovedAtEnd ==
  endPc \in {"finished", "failed"} => tmpFile = None

\* C13: an import the host resolver cannot resolve makes resolve-to-building
\* fail with the resolver's own error: no redirect into the plugin namespace
\* is returned for it and the resolve hook has not run to its end.
C13_ResolveFailurePropagates ==
  \A r \in Reqs :
    (req[r].pc # "idle" /\ req[r].name \notin StyleNames) =>
      /\ req[r].pc = "resolveFailed"
      /\ req[r].error = HostResolve(req[r].name, BuildRoot).error
      /\ req[r].resolved = None
      /\ req[r].events = <<>>

\* the cache entry a load of content c, running alone, stores for request r
SequentialEntry(r, c) == [result |-> FreshResult(r, c), input |-> c]

\* C19: with caching on, two load-building calls for one path that both
\* compile the same source content (both probed the cache before either
\* stored) return equal results, and each of them stores exactly the entry a
\* load running alone would store, so the second store leaves the cache as
\* the first one made it, whatever the order of their probes, compiles and
\* stores.
C19_ConcurrentLoadsIdempotent ==
  /\ [](WatchActive =>
          \A r1, r2 \in Reqs :
            (/\ r1 # r2 /\ req[r1].absPath = req[r2].absPath
             /\ req[r1].compiled /\ req[r2].compiled
             /\ req[r1].source = req[r2].source
             /\ Returned(r1) /\ Returned(r2)) =>
              /\ req[r1].result = req[r2].result
              /\ req[r1].result = FreshResult(r1, req[r1].source))
  /\ [][WatchActive =>
          \A r \in Reqs :
            (req[r].pc = "compiled" /\ req'[r].pc = "stored") =>
              LET p == req[r].absPath
              IN /\ cache'[p] = SequentialEntry(r, req[r].source)
                 /\ \A q \in AbsPaths \ {p} : cache'[q] = cache[q]
                 /\ cache[p] = SequentialEntry(r, req[r].source) => cache' = cache]_vars

W19_TwoLoadsInFlightBothStored ==
  /\ WatchActive /\ edits = 0
  /\ \E p \in AbsPaths :
       /\ compileCount[p] = 2
       /\ req[1].absPath = p /\ req[2].absPath = p
       /\ req[1].compiled /\ req[2].compiled
       /\ Returned(1) /\ Returned(2)
       /\ cache[p] = SequentialEntry(1, fileContent[p])

\* the css outputs in the order the manifest lists them, and their blobs
IsCssOutput(f) == Extname(f) = ".css"
CssInManifestOrder ==
  LET outs == SelectSeq(manifest, IsCssOutput)
  IN [k \in 1..Len(outs) |-> transformCss(BuiltFile(outs[k]))]

\* C16: the css handed to the injector lists the minified css outputs in the
\* order of the manifest, whatever order the reads and transforms end in.
C16_CssInManifestOrder ==
  injectedCode # None => injectedCode.css = CssInManifestOrder

\* the first output of the manifest that is JS-kind and belongs to a
\* requested entry point, NoFile when there is none
FirstRequestedJsOutput ==
  LET hits == {i \in 1..Len(manifest) :
                 /\ Extname(manifest[i]) \in {".js", ".mjs", ".cjs"}
                 /\ EntryPointOf(manifest[i]) # Undef
                 /\ EntryPointOf(manifest[i]) \in entryPoints}
  IN IF hits = {} THEN NoFile
     ELSE manifest[CHOOSE i \in hits : \A j \in hits : i <= j]

\* C17: from the call of onEnd on, the matched entry is the first output in
\* manifest order that is JS-kind and whose entry point was requested, at
\* every point of every interleaving of the per-output callbacks, and a
\* matched entry is never replaced.
C17_FirstRequestedJsEntryMatched ==
  /\ []((Truthy(optionsInject) /\ endPc # "idle") =>
          entryToInject = FirstRequestedJsOutput)
  /\ [][entryToInject # NoFile => entryToInject' = entryToInject]_vars

W17_LaterEntryMatchedOutOfOrderCss ==
  /\ manifest = <<StylesheetEntry, <<OutDir, "a", ".js">>, <<OutDir, "b", ".js">>,
                  <<OutDir, "b", ".css">>>>
  /\ entryPoints = {"b", "s"}
  /\ endPc = "finished"
  /\ entryToInject = <<OutDir, "b", ".js">>
  /\ InjectionsIn(<<OutDir, "b", ".js">>) = 1
  /\ cssContents[1] = transformCss(BuiltFile(<<OutDir, "b", ".css">>))

\* C18: the injector code, the temporary file, the nested build and any
\* change of an output come only after every per-output callback is done,
\* and only with a matched entry and at least one css blob; without a
\* matched entry or without css outputs none of them happens.
C18_InjectionAfterFanIn ==
  /\ (injectedCode # None \/ tmpFile # None \/ nestedBuilds > 0
        \/ outFiles # FilesAsBuilt \/ InBuildJs) =>
       /\ \A i \in 1..Len(manifest) : cssPc[i] = "done"
       /\ entryToInject # NoFile
       /\ Len(cssContents) >= 1
       /\ Len(cssContents) = Cardinality(CssPositions)
  /\ (entryToInject = NoFile \/ CssPositions = {}) =>
       /\ injectedCode = None /\ tmpFile = None /\ nestedBuilds = 0
       /\ outFiles = FilesAsBuilt
       /\ endPc \in {"idle", "joining", "finished"}

W18_InjectedAfterTwoCssOutputs ==
  /\ endPc = "finished"
  /\ nestedBuilds = 1
  /\ Len(cssContents) = 2
  /\ outFiles[entryToInject].injected = <<injectedCode>>

\* --------------------------------------------- binding module properties
\* the classes of the sheet whose kebab-case form is the key
ClassesKeyed(key) == {c \in sheet.content.classes : kebabCase(c) = key}
\* the values the module exports under a name
NamedExports(named, n) == {named[k][2] : k \in {j \in 1..Len(named) : named[j][1] = n}}

\* C14: a property read on the default export of a binding built with
\* injection on returns the scoped name the class map holds for the key
\* (nothing for a key no class has), calls the global injection function not
\* at all during the read and schedules one callback; the function is called
\* only from such a callback, on a later tick, and only when it is defined
\* at that time.
C14_ReadDefersInjection ==
  [][/\ reads' # reads =>
          /\ \A c \in ClassesKeyed(lastRead'.key) :
               lastRead'.value = ScopedName(sheet.path, c)
          /\ ClassesKeyed(lastRead'.key) = {} => lastRead'.value = Missing
          /\ injectCalls' = injectCalls
          /\ binding.js.proxy => timers' = timers + 1
     /\ injectCalls' # injectCalls =>
          /\ injectDefined
          /\ reads' = reads
          /\ timers' = timers - 1
          /\ injectCalls' = injectCalls + 1
     /\ (timers' < timers /\ ~injectDefined) => injectCalls' = injectCalls]_vars

W14_ReadThenInjectedOnLaterTick ==
  /\ binding # None /\ binding.ok /\ binding.js.proxy
  /\ reads = 2 /\ timers = 0
  /\ injectDefined /\ injectCalls = 1
  /\ lastRead.value # Missing

\* C15: for every class of a compiled stylesheet the binding's default export
\* holds the class's scoped name under the kebab-case form of the class name,
\* and the binding has a named export, named by the camelCase form, with that
\* same scoped name and no other.
C15_EveryClassHasBothExports ==
  (binding # None /\ binding.ok) =>
    \A c \in sheet.content.classes :
      /\ ObjectGet(binding.js.default, kebabCase(c)) = ScopedName(sheet.path, c)
      /\ NamedExports(binding.js.named, camelCase(c)) = {ScopedName(sheet.path, c)}

\* C20: what a compile returns for a stylesheet, the JS binding with its
\* default-export keys and named exports in their order, is the same for
\* every order in which the transform lists its export table, and the keys
\* come out in ascending order.
C20_BindingIndependentOfEnumeration ==
  binding # None =>
    /\ \A order \in Enumerations(sheet.content.classes) :
         binding = buildCssModulesJsEnumerated(sheet.path, sheet.content,
                                               sheet.inject, order)
    /\ binding = buildCssModulesJs(sheet.path, sheet.content, sheet.inject)
    /\ binding.ok =>
         \A k \in 1..(Len(binding.js.named) - 1) :
           \E c1, c2 \in sheet.content.classes :
             /\ StrLess(c1, c2)
             /\ binding.js.named[k][2] = ScopedName(sheet.path, c1)
             /\ binding.js.named[k + 1][2] = ScopedName(sheet.path, c2)

W20_CompiledUnderTwoEnumerations ==
  /\ binding # None /\ binding.ok
  /\ Cardinality(enumsSeen) = 2
  /\ Len(binding.js.default) = 2
  /\ enumeration # SortKeys(enumeration)

\* content the compiler adapter rejects
FailsToCompile(c) == ~c.ok \/ HasReservedClass(c)

\* C21: with caching on, a load-building call that fails, on a compiler
\* error or on a reserved class name, leaves the whole cache as it was, the
\* cache never holds an entry for content that fails to compile, and a
\* cache probe that finds such content on disk finds no cached result.
C21_FailedLoadCachesNothing ==
  /\ [](WatchActive =>
          \A p \in AbsPaths : cache[p] # None => ~FailsToCompile(cache[p].input))
  /\ [][WatchActive =>
          \A r \in Reqs :
            /\ (req[r].pc = "reading" /\ req'[r].pc = "loadFailed") =>
                 /\ cache' = cache
                 /\ FailsToCompile(req'[r].source)
                 /\ req'[r].result = None
            /\ (Probes(r) /\ FailsToCompile(fileContent[LoadAbsPath(req[r].resolved.path)])) =>
                 /\ req'[r].pc = "probed"
                 /\ req'[r].cached = None]_vars

W21_FailedTwiceCompiledTwice ==
  /\ WatchActive
  /\ \E p \in AbsPaths :
       /\ req[1].absPath = p /\ req[2].absPath = p
       /\ req[1].pc = "loadFailed" /\ req[2].pc = "loadFailed"
       /\ req[1].source = req[2].source
       /\ compileCount[p] = 2
       /\ cache[p] = None

\* C22: in the older implementation the digest in a stylesheet's generated
\* JS module is the digest of the stylesheet's path alone, so every resolve
\* of the stylesheet gives the digest its first resolve gave, whatever was
\* resolved in between.
C22_OldDigestDependsOnPathOnly ==
  \A p \in AbsPaths :
    (oldModules[p] # None /\ "digest" \in DOMAIN oldModules[p].jsContent) =>
      /\ oldModules[p].jsContent.digest = oldFirstDigest[p]
      /\ oldModules[p].jsContent.digest = PathDigest(p)
====
